---- MODULE Spec2Model ----
(***************************************************************************)
(* Strobe decoding and trial/block alignment of spike_sorting/utils_oe.py: *)
(* reconstruct_8bits_words, check_strobes and find_events_codes.           *)
(*                                                                         *)
(* Python arrays are 0-based, TLA+ sequences 1-based: the element at       *)
(* Python position p of an array a is a[p + 1] here.  Positions held in    *)
(* variables (idx_real_strobes, idx_ch, idx_block) are the 0-based values  *)
(* the code holds.                                                         *)
(***************************************************************************)
EXTENDS Integers, Sequences, FiniteSets, TLC

VARIABLES
  call,              \* the function the caller invoked
  pc,                \* position inside the call
  e_channel,         \* events.channel
  e_state,           \* events.state
  e_timestamp,       \* events.timestamp (<<>> when reconstruct_8bits_words is called directly)
  bhv,               \* behavioral log, one entry per key, in key order
  idx_real_strobes,  \* stream positions of the strobes (argument real_strobes of the two callees)
  n_strobe,          \* number of strobes already decoded by the loop of reconstruct_8bits_words
  current_8code,     \* the 8-element register
  full_word,         \* decoded words
  log,               \* messages handed to logging.info, in order
  real_strobes,      \* find_events_codes: timestamps of the strobes
  start_trials,
  end_trials,
  blocks,            \* block label of every real trial
  n_block,           \* number of distinct labels already handled by the block loop
  bl_start_trials,
  bl_end_trials,
  raised             \* "none", or the exception that left the call

vars == <<call, pc, e_channel, e_state, e_timestamp, bhv, idx_real_strobes,
          n_strobe, current_8code, full_word, log, real_strobes, start_trials,
          end_trials, blocks, n_block, bl_start_trials, bl_end_trials, raised>>

----------------------------------------------------------------------------
(* Bounds of the model *)

MaxLen == 4        \* events in a stream handed to reconstruct_8bits_words
MaxEvents == 3     \* events in an arbitrary stream handed to find_events_codes
MaxWords == 6      \* words written by the device in a recorded stream
MaxTrials == 3     \* real trials in a behavioral log
MaxCodes == 3      \* words / strobes handed to check_strobes directly

(* config.START_CODE and config.END_CODE: two distinct sentinel words *)
START_CODE == 1
END_CODE == 2

----------------------------------------------------------------------------
(* Generic helpers mirroring the numpy / python primitives the code uses *)

Min2(a, b) == IF a < b THEN a ELSE b

\* a[lo:hi] for 0 <= lo
PySlice(a, lo, hi) == SubSeq(a, lo + 1, Min2(hi, Len(a)))

\* np.zeros(n)
Zeros(n) == [i \in 1..n |-> 0]

\* ascending sequence of the elements of a finite set of integers
RECURSIVE SortedSeq(_)
SortedSeq(S) ==
  IF S = {} THEN <<>>
  ELSE LET m == CHOOSE x \in S : \A y \in S : x <= y
       IN  <<m>> \o SortedSeq(S \ {m})

\* np.where(a == v)[0]: the 0-based positions of a holding v, ascending
Where(a, v) == SortedSeq({p \in 0..(Len(a) - 1) : a[p + 1] = v})

\* a[idx] for an index array idx (every index within the array)
Take(a, idx) == [i \in 1..Len(idx) |-> a[idx[i] + 1]]

\* a[mask]: the elements of a at the positions where the mask holds
Masked(a, mask) == Take(a, Where(mask, TRUE))

\* int("".join([str(item) for item in code]), 2) for a register of 0/1 items:
\* the digits are written most significant first and read in base 2
RECURSIVE ParseBinary(_)
ParseBinary(digits) ==
  IF Len(digits) = 0 THEN 0
  ELSE 2 * ParseBinary(SubSeq(digits, 1, Len(digits) - 1)) + digits[Len(digits)]

----------------------------------------------------------------------------
(* reconstruct_8bits_words *)

idx_old == 0

\* the loop running over the strobe line as well
DataLinesWithStrobe == 0..7

\* np.arange(0, 7)
DataLines == 0..6

\* the register filled from the other end
RegisterIndexReversed(ch) == ch + 1

\* register position written for loop value ch (data channel ch + 1)
RegisterIndex(ch) == 7 - ch

\* idx_ch[0]
FirstIndex(idx_ch) == idx_ch[1]

\* idx_ch[-1]
LastIndex(idx_ch) == idx_ch[Len(idx_ch)]

\* the slice running to the end of the stream
SliceEndOfStream(idx_strobe) == Len(e_channel)

\* the slice running two events too far
SliceEndLate(idx_strobe) == idx_strobe + 2

\* end of the slice scanned for the strobe at idx_strobe
SliceEnd(idx_strobe) == idx_strobe

\* one pass of the inner loop body, for loop value ch
UpdateLine(code, ch, idx_strobe, chan, state) ==
  LET idx_ch == Where(PySlice(chan, idx_old, SliceEnd(idx_strobe)), ch + 1)
  IN  [code EXCEPT ![RegisterIndex(ch) + 1] =
         IF Len(idx_ch) # 0 THEN state[LastIndex(idx_ch) + 1]
         ELSE code[RegisterIndex(ch) + 1]]

\* the inner loop over the lines, in ascending order
RECURSIVE UpdateLines(_, _, _, _, _)
UpdateLines(code, lines, idx_strobe, chan, state) ==
  IF lines = {} THEN code
  ELSE LET ch == CHOOSE x \in lines : \A y \in lines : x <= y
       IN  UpdateLines(UpdateLine(code, ch, idx_strobe, chan, state),
                       lines \ {ch}, idx_strobe, chan, state)

\* entry of reconstruct_8bits_words: the locals before the loop
ReconstructEntry ==
  /\ n_strobe' = 0
  /\ current_8code' = Zeros(8)
  /\ full_word' = Zeros(Len(idx_real_strobes'))

\* one iteration of the loop over the strobes
ReconstructStrobe ==
  /\ pc = "reconstruct"
  /\ n_strobe < Len(idx_real_strobes)
  /\ LET idx_strobe == idx_real_strobes[n_strobe + 1]
         code == UpdateLines(current_8code, DataLines, idx_strobe, e_channel, e_state)
     IN  /\ current_8code' = code
         /\ full_word' = [full_word EXCEPT ![n_strobe + 1] = ParseBinary(code)]
  /\ n_strobe' = n_strobe + 1
  /\ UNCHANGED <<call, pc, e_channel, e_state, e_timestamp, bhv, idx_real_strobes,
                 log, real_strobes, start_trials, end_trials, blocks, n_block,
                 bl_start_trials, bl_end_trials, raised>>

\* the loop is exhausted: return full_word to the caller
ReconstructReturn ==
  /\ pc = "reconstruct"
  /\ n_strobe = Len(idx_real_strobes)
  /\ pc' = IF call = "find_events_codes" THEN "check" ELSE "done"
  /\ UNCHANGED <<call, e_channel, e_state, e_timestamp, bhv, idx_real_strobes,
                 n_strobe, current_8code, full_word, log, real_strobes,
                 start_trials, end_trials, blocks, n_block, bl_start_trials,
                 bl_end_trials, raised>>

----------------------------------------------------------------------------
(* check_strobes *)

\* list(bhv.keys())[1:-1]: every entry but the first and the last
Trials(log_entries) == SubSeq(log_entries, 2, Len(log_entries) - 1)

\* np.concatenate of the first CodeNumbers row of every trial, in trial order
RECURSIVE Concatenate(_)
Concatenate(rows) ==
  IF Len(rows) = 0 THEN <<>>
  ELSE rows[1].CodeNumbers \o Concatenate(Tail(rows))

BhvCodes(log_entries) == Concatenate(Trials(log_entries))

\* np.sum(a - b) for two arrays of the same length
RECURSIVE SumDiff(_, _)
SumDiff(a, b) ==
  IF Len(a) = 0 THEN 0
  ELSE (a[1] - b[1]) + SumDiff(Tail(a), Tail(b))

WarnStrobeCount == "Warning, Strobe and codes number do not match"
OkStrobeCount == "Strobe and codes number do match"
StrobesCount == "Strobes = %d"
CodesCount == "codes number = %d"
WarnMLCount == "Warning, ML and OE code numbers do not match"
OkMLCount == "ML and OE code numbers do match"
WarnMLCodes == "Warning, ML and OE codes are different"
OkMLCodes == "ML and OE codes are the same"

\* the first comparison inverted
StrobeCountMessagesInverted(words, strobes) ==
  IF Len(words) = Len(strobes) THEN <<WarnStrobeCount>>
  ELSE <<OkStrobeCount, StrobesCount, CodesCount>>

\* first if/else of check_strobes.  The two calls after the warning pass an
\* argument to a message without a format directive: the logging module
\* reports the formatting error itself and emits no record for them.
StrobeCountMessages(words, strobes) ==
  IF Len(words) # Len(strobes) THEN <<WarnStrobeCount>>
  ELSE <<OkStrobeCount, StrobesCount, CodesCount>>

\* the comparison of the code values
CodesDiffer(bhv_codes, words) == SumDiff(bhv_codes, words) # 0

\* second if/else of check_strobes
MLMessages(bhv_codes, words) ==
  IF Len(words) # Len(bhv_codes) THEN <<WarnMLCount>>
  ELSE IF CodesDiffer(bhv_codes, words) THEN <<OkMLCount, WarnMLCodes>>
       ELSE <<OkMLCount, OkMLCodes>>

\* check_strobes with at least one real trial
CheckStrobes ==
  /\ pc = "check"
  /\ Len(Trials(bhv)) > 0
  /\ log' = log \o StrobeCountMessages(full_word, idx_real_strobes)
                \o MLMessages(BhvCodes(bhv), full_word)
  /\ pc' = IF call = "find_events_codes" THEN "extract" ELSE "done"
  /\ UNCHANGED <<call, e_channel, e_state, e_timestamp, bhv, idx_real_strobes,
                 n_strobe, current_8code, full_word, real_strobes, start_trials,
                 end_trials, blocks, n_block, bl_start_trials, bl_end_trials,
                 raised>>

\* check_strobes without a real trial: np.concatenate([]) raises
CheckStrobesNoTrial ==
  /\ pc = "check"
  /\ Len(Trials(bhv)) = 0
  /\ raised' = "ValueError"
  /\ pc' = "raised"
  /\ UNCHANGED <<call, e_channel, e_state, e_timestamp, bhv, idx_real_strobes,
                 n_strobe, current_8code, full_word, log, real_strobes,
                 start_trials, end_trials, blocks, n_block, bl_start_trials,
                 bl_end_trials>>

----------------------------------------------------------------------------
(* find_events_codes *)

\* the condition without the test of the timestamp
IsStrobeAnyTime(channel, state, timestamp) == channel = 8 /\ state = 1

\* the condition an event must meet to be a strobe
IsStrobe(channel, state, timestamp) == channel = 8 /\ state = 1 /\ timestamp > 0

\* np.where(np.logical_and(...))[0]
RealStrobeIdx(chan, state, ts) ==
  Where([i \in 1..Len(chan) |-> IsStrobe(chan[i], state[i], ts[i])], TRUE)

\* real_strobes[full_word == code]
BoundaryTimestamps(strobe_ts, words, code) ==
  Masked(strobe_ts, [i \in 1..Len(words) |-> words[i] = code])

\* the block label of every real trial, in trial order
TrialBlocks(log_entries) ==
  [i \in 1..Len(Trials(log_entries)) |-> Trials(log_entries)[i].Block]

\* the distinct labels in the order of their first occurrence
RECURSIVE FirstOccurrences(_)
FirstOccurrences(labels) ==
  IF Len(labels) = 0 THEN <<>>
  ELSE <<labels[1]>>
       \o FirstOccurrences(SelectSeq(Tail(labels), LAMBDA x : x # labels[1]))

\* np.unique(blocks): the distinct labels, ascending
Unique(labels) == SortedSeq({labels[i] : i \in 1..Len(labels)})

\* an index array that numpy accepts for an array of length n
InBounds(idx, n) == \A i \in 1..Len(idx) : idx[i] < n

\* lines 148-158: find the strobes and enter reconstruct_8bits_words
FindStrobes ==
  /\ pc = "start"
  /\ log' = log \o <<"Reconstructing 8 bit words">>
  /\ idx_real_strobes' = RealStrobeIdx(e_channel, e_state, e_timestamp)
  /\ ReconstructEntry
  /\ pc' = "reconstruct"
  /\ UNCHANGED <<call, e_channel, e_state, e_timestamp, bhv, real_strobes,
                 start_trials, end_trials, blocks, n_block, bl_start_trials,
                 bl_end_trials, raised>>

\* lines 162-177: boundary timestamps and block labels
ExtractBoundaries ==
  /\ pc = "extract"
  /\ real_strobes' = Take(e_timestamp, idx_real_strobes)
  /\ start_trials' = BoundaryTimestamps(real_strobes', full_word, START_CODE)
  /\ end_trials' = BoundaryTimestamps(real_strobes', full_word, END_CODE)
  /\ blocks' = TrialBlocks(bhv)
  /\ n_block' = 0
  /\ bl_start_trials' = <<>>
  /\ bl_end_trials' = <<>>
  /\ pc' = "blocks"
  /\ UNCHANGED <<call, e_channel, e_state, e_timestamp, bhv, idx_real_strobes,
                 n_strobe, current_8code, full_word, log, raised>>

\* one iteration of the loop over the distinct labels, both slices in bounds
BlockStep ==
  /\ pc = "blocks"
  /\ n_block < Len(Unique(blocks))
  /\ LET idx_block == Where(blocks, Unique(blocks)[n_block + 1])
     IN  /\ InBounds(idx_block, Len(start_trials))
         /\ InBounds(idx_block, Len(end_trials))
         /\ bl_start_trials' = Append(bl_start_trials, Take(start_trials, idx_block))
         /\ bl_end_trials' = Append(bl_end_trials, Take(end_trials, idx_block))
  /\ n_block' = n_block + 1
  /\ UNCHANGED <<call, pc, e_channel, e_state, e_timestamp, bhv, idx_real_strobes,
                 n_strobe, current_8code, full_word, log, real_strobes,
                 start_trials, end_trials, blocks, raised>>

\* one iteration of the loop where start_trials[idx_block] or
\* end_trials[idx_block] indexes past the end of the array: IndexError
BlockIndexError ==
  /\ pc = "blocks"
  /\ n_block < Len(Unique(blocks))
  /\ LET idx_block == Where(blocks, Unique(blocks)[n_block + 1])
     IN  /\ ~(InBounds(idx_block, Len(start_trials)) /\ InBounds(idx_block, Len(end_trials)))
         /\ bl_start_trials' =
              IF InBounds(idx_block, Len(start_trials))
              THEN Append(bl_start_trials, Take(start_trials, idx_block))
              ELSE bl_start_trials
  /\ raised' = "IndexError"
  /\ pc' = "raised"
  /\ UNCHANGED <<call, e_channel, e_state, e_timestamp, bhv, idx_real_strobes,
                 n_strobe, current_8code, full_word, log, real_strobes,
                 start_trials, end_trials, blocks, n_block, bl_end_trials>>

\* lines 185-191: the five outputs are returned
FindEventsReturn ==
  /\ pc = "blocks"
  /\ n_block = Len(Unique(blocks))
  /\ pc' = "done"
  /\ UNCHANGED <<call, e_channel, e_state, e_timestamp, bhv, idx_real_strobes,
                 n_strobe, current_8code, full_word, log, real_strobes,
                 start_trials, end_trials, blocks, n_block, bl_start_trials,
                 bl_end_trials, raised>>

----------------------------------------------------------------------------
(* Inputs *)

SeqsUpTo(S, n) == UNION {[1..k -> S] : k \in 0..n}

Column(ev, c) == [i \in 1..Len(ev) |-> ev[i][c]]

States == {0, 1}
Channels == 1..8

\* positions of the strobe-line ON events of a stream
StrobeOnPositions(chan, state) ==
  {p \in 0..(Len(chan) - 1) : chan[p + 1] = 8 /\ state[p + 1] = 1}

\* the locals of the functions that have not run
IdleDecode ==
  /\ n_strobe = 0
  /\ current_8code = Zeros(8)
IdleAlign ==
  /\ log = <<>>
  /\ real_strobes = <<>>
  /\ start_trials = <<>>
  /\ end_trials = <<>>
  /\ blocks = <<>>
  /\ n_block = 0
  /\ bl_start_trials = <<>>
  /\ bl_end_trials = <<>>
  /\ raised = "none"

\* a direct call reconstruct_8bits_words(real_strobes, e_channel, e_state):
\* any stream of events on the lines 1..8, and any selection of its
\* strobe-line ON events as the strobes
InitDecode ==
  /\ call = "reconstruct_8bits_words"
  /\ pc = "reconstruct"
  /\ \E n \in 0..MaxLen : \E ev \in [1..n -> Channels \X States] :
       /\ e_channel = Column(ev, 1)
       /\ e_state = Column(ev, 2)
       /\ \E sel \in SUBSET StrobeOnPositions(Column(ev, 1), Column(ev, 2)) :
            /\ idx_real_strobes = SortedSeq(sel)
            /\ full_word = Zeros(Cardinality(sel))
  /\ e_timestamp = <<>>
  /\ bhv = <<>>
  /\ IdleDecode
  /\ IdleAlign

NextDecode == ReconstructStrobe \/ ReconstructReturn

SpecDecode == InitDecode /\ [][NextDecode]_vars

\* the first and the last key of the log are not trials
Header == [Block |-> 0, CodeNumbers |-> <<>>]

Labels == {1, 2}
CodeValues == {START_CODE, END_CODE}

\* logs of n real trials, every trial drawn from the set trialSet
Logs(trialSet, n) == {<<Header>> \o t \o <<Header>> : t \in [1..n -> trialSet]}

\* a direct call check_strobes(bhv, full_word, real_strobes): any words, any
\* number of strobes, and a log of up to MaxTrials trials of one or two codes
InitCheck ==
  /\ call = "check_strobes"
  /\ pc = "check"
  /\ e_channel = <<>>
  /\ e_state = <<>>
  /\ e_timestamp = <<>>
  /\ \E n \in 0..MaxTrials :
       bhv \in Logs([Block : {1}, CodeNumbers : SeqsUpTo(CodeValues, 2) \ {<<>>}], n)
  /\ full_word \in SeqsUpTo(CodeValues, MaxCodes)
  /\ \E n \in 0..MaxCodes : idx_real_strobes = [i \in 1..n |-> i - 1]
  /\ IdleDecode
  /\ IdleAlign

NextCheck == CheckStrobes \/ CheckStrobesNoTrial

SpecCheck == InitCheck /\ [][NextCheck]_vars

\* events <<channel, state, timestamp>> of an arbitrary short stream
AlignChannels == {1, 2, 8}
Timestamps == {0, 5, 15}

\* the stream of the end-to-end scenario
ScenarioStream == << <<8, 1, 5>>, <<1, 1, 5>>, <<8, 1, 15>>, <<2, 1, 12>> >>

\* value of data line ch (1..7) in the word w
LineOf(w, ch) == (w \div (2 ^ (ch - 1))) % 2

\* the transitions that take the data lines from the word prev to the word w
RECURSIVE LineEvents(_, _, _, _)
LineEvents(prev, w, t, ch) ==
  IF ch > 7 THEN <<>>
  ELSE (IF LineOf(prev, ch) # LineOf(w, ch) THEN << <<ch, LineOf(w, ch), t>> >> ELSE <<>>)
       \o LineEvents(prev, w, t, ch + 1)

\* a recorded stream: for the k-th word the device sets the data lines at time
\* 10k, raises the strobe line at 10k and lowers it at 10k + 1
RECURSIVE DeviceStream(_, _, _)
DeviceStream(words, prev, k) ==
  IF k > Len(words) THEN <<>>
  ELSE LineEvents(prev, words[k], 10 * k, 1)
       \o << <<8, 1, 10 * k>>, <<8, 0, 10 * k + 1>> >>
       \o DeviceStream(words, words[k], k + 1)

DeviceWords == {START_CODE, END_CODE, START_CODE + END_CODE}

TrialEntries == [Block : Labels, CodeNumbers : {<<START_CODE, END_CODE>>}]

\* a call find_events_codes(events, bhv): either an arbitrary short stream (or
\* the scenario stream) with the log of one trial, or a recorded stream of up to
\* MaxWords words with a log of up to MaxTrials trials
StreamColumns(ev) ==
  /\ e_channel = Column(ev, 1)
  /\ e_state = Column(ev, 2)
  /\ e_timestamp = Column(ev, 3)

InitAlign ==
  /\ call = "find_events_codes"
  /\ pc = "start"
  /\ \/ \E ev \in SeqsUpTo(AlignChannels \X States \X Timestamps, MaxEvents)
                  \cup {ScenarioStream} :
          /\ StreamColumns(ev)
          /\ bhv \in Logs([Block : {1}, CodeNumbers : {<<START_CODE, END_CODE>>}], 1)
     \/ \E w \in SeqsUpTo(DeviceWords, MaxWords), n \in 0..MaxTrials :
          /\ StreamColumns(DeviceStream(w, 0, 1))
          /\ bhv \in Logs(TrialEntries, n)
  /\ idx_real_strobes = <<>>
  /\ full_word = <<>>
  /\ IdleDecode
  /\ IdleAlign

NextAlign ==
  \/ FindStrobes
  \/ ReconstructStrobe
  \/ ReconstructReturn
  \/ CheckStrobes
  \/ CheckStrobesNoTrial
  \/ ExtractBoundaries
  \/ BlockStep
  \/ BlockIndexError
  \/ FindEventsReturn

SpecAlign == InitAlign /\ [][NextAlign]_vars

----------------------------------------------------------------------------
(* Properties of the decoder *)

DataChannels == 1..7

\* positions before the stream position p that hold an event of a data line
DataPositionsBefore(p) == {q \in 0..(p - 1) : e_channel[q + 1] \in DataChannels}

\* positions in lo..hi-1 holding an event of line ch
LinePositions(ch, lo, hi) == {q \in lo..(hi - 1) : e_channel[q + 1] = ch}

MaxOf(S) == CHOOSE x \in S : \A y \in S : y <= x
MinOf(S) == CHOOSE x \in S : \A y \in S : x <= y

\* register whose only set position is p (0-based)
OnlyPosition(p) == [i \in 1..8 |-> IF i = p + 1 THEN 1 ELSE 0]

\* C1: when the only data-line event before a strobe is (ch, 1), the word of
\* that strobe is 2^(ch-1) (1 for channel 1), and the register the loop holds
\* right after that strobe has its single set bit at position 7-(ch-1).
C1_BitPosition ==
  \A k \in 1..n_strobe : \A ch \in DataChannels :
    LET D == DataPositionsBefore(idx_real_strobes[k])
    IN  (/\ Cardinality(D) = 1
         /\ \A q \in D : e_channel[q + 1] = ch /\ e_state[q + 1] = 1)
        => /\ full_word[k] = 2 ^ (ch - 1)
           /\ (ch = 1 => full_word[k] = 1)
           /\ (k = n_strobe => current_8code = OnlyPosition(7 - (ch - 1)))

\* C1 witness: a strobe decoded after a single event (7, 1) gave the word 64
C1_Witness ==
  \E k \in 1..n_strobe :
    LET D == DataPositionsBefore(idx_real_strobes[k])
    IN  /\ Cardinality(D) = 1
        /\ \A q \in D : e_channel[q + 1] = 7 /\ e_state[q + 1] = 1
        /\ full_word[k] = 64
        /\ pc = "done"

\* C2: sample-and-hold.  A strobe with no data-line event before it emits 0,
\* and two consecutive strobes with no data-line event between their stream
\* positions emit the same word.
C2_SampleAndHold ==
  /\ \A k \in 1..n_strobe :
       DataPositionsBefore(idx_real_strobes[k]) = {} => full_word[k] = 0
  /\ \A k \in 1..(n_strobe - 1) :
       (\A q \in idx_real_strobes[k]..(idx_real_strobes[k + 1] - 1) :
          e_channel[q + 1] \notin DataChannels)
       => full_word[k + 1] = full_word[k]

\* C2 witness: two consecutive strobes with nothing on the data lines between
\* them, the second repeating a non-zero word
C2_Witness ==
  \E k \in 1..(n_strobe - 1) :
    /\ \A q \in idx_real_strobes[k]..(idx_real_strobes[k + 1] - 1) :
         e_channel[q + 1] \notin DataChannels
    /\ full_word[k] # 0
    /\ full_word[k + 1] = full_word[k]

\* the register of the windowed algorithm after the k-th strobe: line ch takes
\* the state of its last event in the window from the previous strobe's
\* position (0 for the first strobe) up to the current strobe's position, and
\* keeps its bit when the window has no event of the line
RECURSIVE WindowedRegister(_)
WindowedRegister(k) ==
  IF k = 0 THEN [i \in 1..8 |-> 0]
  ELSE LET prev == WindowedRegister(k - 1)
           lo == IF k = 1 THEN 0 ELSE idx_real_strobes[k - 1]
           hi == idx_real_strobes[k]
       IN  [i \in 1..8 |->
              IF i = 1 THEN prev[i]
              ELSE LET W == LinePositions(9 - i, lo, hi)
                   IN  IF W = {} THEN prev[i] ELSE e_state[MaxOf(W) + 1]]

\* the register read as a big-endian binary number
RegisterValue(r) ==
  128 * r[1] + 64 * r[2] + 32 * r[3] + 16 * r[4] + 8 * r[5] + 4 * r[6] + 2 * r[7] + r[8]

\* C9: the words the loop emits, its lower scan bound staying 0, are the words
\* of the windowed algorithm.
C9_WindowedEquivalence ==
  \A k \in 1..n_strobe : full_word[k] = RegisterValue(WindowedRegister(k))

\* C9 witness: the call returned a word for a strobe whose scan saw a line
\* switch from 0 to 1, and a later strobe whose own window is silent on that line
C9_Witness ==
  /\ pc = "done"
  /\ \E k \in 1..(n_strobe - 1) : \E ch \in DataChannels :
       LET W == LinePositions(ch, 0, idx_real_strobes[k])
       IN  /\ Cardinality(W) >= 2
           /\ e_state[MinOf(W) + 1] = 0
           /\ e_state[MaxOf(W) + 1] = 1
           /\ LinePositions(ch, idx_real_strobes[k], idx_real_strobes[k + 1]) = {}
           /\ full_word[k + 1] = 2 ^ (ch - 1)

\* C10: position 0 of the register is never set and every emitted word lies
\* in 0..127, so no word equals a code of 128 or more.
C10_SevenBitWords ==
  /\ current_8code[1] = 0
  /\ \A k \in 1..Len(full_word) : full_word[k] \in 0..127
  /\ \A k \in 1..Len(full_word) : \A code \in 128..255 : full_word[k] # code

\* C10 witness: a strobe-line ON event precedes the second strobe, whose word
\* has the most significant data line set
C10_Witness ==
  /\ pc = "done"
  /\ n_strobe >= 2
  /\ full_word[2] >= 64
  /\ \E q \in 0..(idx_real_strobes[2] - 1) : e_channel[q + 1] = 8 /\ e_state[q + 1] = 1

----------------------------------------------------------------------------
(* Properties of check_strobes *)

\* the messages the step appended to the log
Logged(msg) == \E i \in (Len(log) + 1)..Len(log') : log'[i] = msg

\* C5: with at least one real trial, check_strobes returns without raising
\* and leaves bhv, full_word and real_strobes as they were; a word count that
\* differs from the strobe count is reported, and a word count that differs
\* from the behavioral-code count is reported with no comparison of the values.
C5_CountMismatch ==
  [][(pc = "check" /\ Len(Trials(bhv)) >= 1) =>
       /\ pc' \in {"done", "extract"}
       /\ raised' = "none"
       /\ bhv' = bhv /\ full_word' = full_word /\ idx_real_strobes' = idx_real_strobes
       /\ (Len(full_word) # Len(idx_real_strobes) => Logged(WarnStrobeCount))
       /\ (Len(full_word) # Len(BhvCodes(bhv)) =>
             /\ Logged(WarnMLCount)
             /\ ~Logged(WarnMLCodes)
             /\ ~Logged(OkMLCodes))]_vars

\* C5 witness: check_strobes returned after reporting both count mismatches
C5_Witness ==
  /\ call = "check_strobes"
  /\ pc = "done"
  /\ raised = "none"
  /\ Len(full_word) # Len(idx_real_strobes)
  /\ Len(full_word) # Len(BhvCodes(bhv))
  /\ log = <<WarnStrobeCount, WarnMLCount>>

InLog(msg) == \E i \in 1..Len(log) : log[i] = msg

\* C4: with as many words as behavioral codes, the codes are reported
\* different whenever the two sequences differ at some position, and reported
\* the same only when they are equal element by element.
C4_ValueMismatch ==
  (call = "check_strobes" /\ pc = "done" /\ Len(full_word) = Len(BhvCodes(bhv))) =>
     /\ (full_word # BhvCodes(bhv) => InLog(WarnMLCodes))
     /\ (InLog(OkMLCodes) => full_word = BhvCodes(bhv))

----------------------------------------------------------------------------
(* Properties of find_events_codes *)

StrobePositions ==
  {p \in 0..(Len(e_channel) - 1) :
     e_channel[p + 1] = 8 /\ e_state[p + 1] = 1 /\ e_timestamp[p + 1] > 0}

\* C3: a call with at least one strobe and at least one real trial never
\* raises, whatever the decoded words and the behavioral log are.
C3_NeverRaises ==
  (call = "find_events_codes" /\ StrobePositions # {} /\ Len(Trials(bhv)) >= 1)
    => raised = "none"

\* the boundaries have been extracted
Extracted == pc \in {"blocks", "done"} \/ (pc = "raised" /\ raised = "IndexError")

\* timestamps of the strobes from the k-th on whose word is the code
RECURSIVE StrobeTimesOf(_, _)
StrobeTimesOf(code, k) ==
  IF k > Len(idx_real_strobes) THEN <<>>
  ELSE (IF full_word[k] = code THEN <<e_timestamp[idx_real_strobes[k] + 1]>> ELSE <<>>)
       \o StrobeTimesOf(code, k + 1)

NonDecreasing(a) == \A i \in 1..(Len(a) - 1) : a[i] <= a[i + 1]

\* C7: the strobes are exactly the events with channel 8, state 1 and a
\* positive timestamp, in stream order; start_trials (end_trials) holds the
\* timestamp of every strobe whose word is START_CODE (END_CODE), once each
\* and in strobe order, hence non-decreasing when the stream's timestamps are.
C7_BoundaryExtraction ==
  /\ (call = "find_events_codes" /\ pc # "start") =>
       /\ {idx_real_strobes[k] : k \in 1..Len(idx_real_strobes)} = StrobePositions
       /\ \A k \in 1..(Len(idx_real_strobes) - 1) :
            idx_real_strobes[k] < idx_real_strobes[k + 1]
  /\ Extracted =>
       /\ Len(real_strobes) = Len(idx_real_strobes)
       /\ \A k \in 1..Len(real_strobes) :
            real_strobes[k] = e_timestamp[idx_real_strobes[k] + 1]
       /\ start_trials = StrobeTimesOf(START_CODE, 1)
       /\ end_trials = StrobeTimesOf(END_CODE, 1)
       /\ NonDecreasing(e_timestamp) =>
            NonDecreasing(start_trials) /\ NonDecreasing(end_trials)

\* C7 witness: the boundaries were extracted from a stream holding a
\* strobe-line ON event at timestamp 0 and a strobe decoded as START_CODE
C7_Witness ==
  /\ Extracted
  /\ \E p \in 0..(Len(e_channel) - 1) :
       e_channel[p + 1] = 8 /\ e_state[p + 1] = 1 /\ e_timestamp[p + 1] = 0
  /\ Len(start_trials) = 1
  /\ Len(end_trials) = 0
  /\ Cardinality(StrobePositions) = 1

\* C8: the word of a strobe is fixed by the events at stream positions before
\* the strobe's own: every data line reads the state of its last event before
\* that position (0 when it has none), whatever the timestamps, so an event at
\* or after the strobe's position has no effect.  In the scenario stream the
\* first word is 0.
C8_ExclusiveUpperBound ==
  /\ \A k \in 1..n_strobe : \A ch \in DataChannels :
       LET W == LinePositions(ch, 0, idx_real_strobes[k])
       IN  LineOf(full_word[k], ch) = IF W = {} THEN 0 ELSE e_state[MaxOf(W) + 1]
  /\ (e_channel = Column(ScenarioStream, 1) /\ e_state = Column(ScenarioStream, 2)
      /\ e_timestamp = Column(ScenarioStream, 3) /\ n_strobe >= 1)
       => full_word[1] = 0

\* C8 witness: the scenario stream decoded, the event (1, 1, 5) right after
\* the first strobe left out of the first word and present in the second
C8_Witness ==
  /\ e_channel = Column(ScenarioStream, 1)
  /\ e_state = Column(ScenarioStream, 2)
  /\ e_timestamp = Column(ScenarioStream, 3)
  /\ idx_real_strobes = <<0, 2>>
  /\ n_strobe = 2
  /\ full_word = <<0, 1>>

\* the 0-based positions of the real trials carrying the label, ascending
LabelPosition(lab, j) ==
  CHOOSE i \in 0..(Len(Trials(bhv)) - 1) :
    /\ Trials(bhv)[i + 1].Block = lab
    /\ Cardinality({h \in 0..(i - 1) : Trials(bhv)[h + 1].Block = lab}) = j - 1

LabelCount(lab) == Cardinality({i \in 1..Len(Trials(bhv)) : Trials(bhv)[i].Block = lab})

\* the five values returned
ReturnedLabels == Unique(blocks)

\* C6: on return the label array holds every distinct label of the real
\* trials once, ascending, and the k-th block lists start_trials (end_trials)
\* at the positions of the trials carrying the k-th label, in trial order.
C6_BlockSegmentation ==
  (call = "find_events_codes" /\ pc = "done") =>
    /\ {ReturnedLabels[k] : k \in 1..Len(ReturnedLabels)}
         = {Trials(bhv)[i].Block : i \in 1..Len(Trials(bhv))}
    /\ \A k \in 1..(Len(ReturnedLabels) - 1) : ReturnedLabels[k] < ReturnedLabels[k + 1]
    /\ Len(bl_start_trials) = Len(ReturnedLabels)
    /\ Len(bl_end_trials) = Len(ReturnedLabels)
    /\ \A k \in 1..Len(ReturnedLabels) :
         /\ Len(bl_start_trials[k]) = LabelCount(ReturnedLabels[k])
         /\ Len(bl_end_trials[k]) = LabelCount(ReturnedLabels[k])
         /\ \A j \in 1..LabelCount(ReturnedLabels[k]) :
              /\ bl_start_trials[k][j] = start_trials[LabelPosition(ReturnedLabels[k], j) + 1]
              /\ bl_end_trials[k][j] = end_trials[LabelPosition(ReturnedLabels[k], j) + 1]

\* C6 witness: the call returned for the labels [1, 1, 2] and the start
\* timestamps [10, 20, 30]
C6_Witness ==
  /\ call = "find_events_codes"
  /\ pc = "done"
  /\ blocks = <<1, 1, 2>>
  /\ start_trials = <<10, 20, 30>>
  /\ bl_start_trials = << <<10, 20>>, <<30>> >>
  /\ Len(bl_end_trials) = 2
  /\ Unique(blocks) = <<1, 2>>

====
